---- MODULE Spec2Model ----
(***************************************************************************)
(* Model of pandasai.helpers.memory.Memory: the conversation log, the      *)
(* retrieved question/answer examples and the views rendered from them.    *)
(* Strings are sequences of one-character strings.                         *)
(***************************************************************************)
EXTENDS Integers, Sequences, FiniteSets, TLC

VARIABLES messages, memory_size, agent_info, qa_context, op, arg, ret, exc,
          nAdds, lastDocs

state == <<messages, memory_size, agent_info, qa_context>>
ghost == <<nAdds, lastDocs>>
vars == <<messages, memory_size, agent_info, qa_context, op, arg, ret, exc,
          nAdds, lastDocs>>

----------------------------------------------------------------------------
(* Bounds of the model. *)
MaxTurns == 2
MaxWindow == 2
MaxLimit == 2
MaxDocs == 2

(* Program constant: default of _truncate's max_length. *)
max_length == 100

----------------------------------------------------------------------------
(* Optional values (None / a value). *)
None == [some |-> FALSE, val |-> <<>>]
Some(v) == [some |-> TRUE, val |-> v]

Min(a, b) == IF a < b THEN a ELSE b
Max(a, b) == IF a > b THEN a ELSE b

(* Texts whose characters depend on their position, so that a prefix, a    *)
(* suffix and a shifted slice of one text are all different.               *)
Chr(i) == <<"a", "b", "c">>[(i % 3) + 1]
MkText(n) == [i \in 1..n |-> Chr(i)]
TextLens == {0, max_length, max_length + 1}
Texts == {MkText(n) : n \in TextLens}
Turns == [message : Texts, is_user : BOOLEAN]

AgentInfos == {None, Some(<<>>), Some(<<"b", "o", "t">>)}
Limits == {None} \cup {Some(n) : n \in 0..MaxLimit}

(* Python slice s[start:] for any integer start. *)
PySliceFrom(s, start) ==
    LET from == IF start < 0 THEN Max(Len(s) + start, 0) ELSE Min(start, Len(s))
    IN  SubSeq(s, from + 1, Len(s))

(* Python slice s[:stop] for stop >= 0. *)
PySliceTo(s, stop) == SubSeq(s, 1, Min(stop, Len(s)))

(* Python truthiness of an Optional[str]: None and "" are falsy. *)
Truthy(o) == o.some /\ o.val # <<>>

(* sep.join(strs) *)
RECURSIVE Join(_, _)
Join(strs, sep) ==
    IF strs = <<>> THEN <<>>
    ELSE IF Len(strs) = 1 THEN strs[1]
    ELSE strs[1] \o sep \o Join(Tail(strs), sep)

NL == <<"\n">>
QUERY == <<"#", "#", "#", " ", "Q", "U", "E", "R", "Y">>
ANSWER == <<"#", "#", "#", " ", "A", "N", "S", "W", "E", "R">>
ELLIPSIS == <<" ", ".", ".", ".">>

----------------------------------------------------------------------------
(* The question/answer document parser, a collaborator outside the module. *)
QADocs == {"d1", "d2", "bad"}
DocSeqs == UNION {[1..n -> QADocs] : n \in 0..MaxDocs}

parse_qa_doc(doc) ==
    CASE doc = "d1" -> [ok |-> TRUE, question |-> <<"q", "1">>, answer |-> <<"a", "1">>]
      [] doc = "d2" -> [ok |-> TRUE, question |-> <<"q", "2">>, answer |-> <<"a", "2">>]
      [] OTHER      -> [ok |-> FALSE, question |-> <<>>, answer |-> <<>>]

----------------------------------------------------------------------------
(* Pure views. *)
(* Variant: the count bounded by the window size. *)
count_Windowed(msgs) == Min(Len(msgs), memory_size)

count(msgs) == Len(msgs)

all(msgs) == msgs

(* Variant: a text of exactly max_length characters is truncated too. *)
_truncate_Inclusive(message) ==
    IF Len(message) >= max_length
    THEN PySliceTo(message, max_length) \o ELLIPSIS
    ELSE message

_truncate(message) ==
    IF Len(message) > max_length
    THEN PySliceTo(message, max_length) \o ELLIPSIS
    ELSE message

RenderMessage(m) ==
    (IF m.is_user THEN QUERY ELSE ANSWER) \o NL \o <<" ">> \o
    (IF m.is_user THEN m.message ELSE _truncate(m.message))

get_messages(msgs, size, limit) ==
    LET lim == IF limit.some THEN limit.val ELSE size
        window == PySliceFrom(msgs, 0 - lim)
    IN  [i \in 1..Len(window) |-> RenderMessage(window[i])]

get_conversation(msgs, size, limit) == Join(get_messages(msgs, size, limit), NL)

(* Variant: the oldest message of the window is dropped, not the newest. *)
get_previous_conversation_DropsFirst(msgs, size) ==
    LET rendered == get_messages(msgs, size, Some(size))
    IN  IF Len(rendered) <= 1 THEN <<>>
        ELSE Join(SubSeq(rendered, 2, Len(rendered)), NL)

get_previous_conversation(msgs, size) ==
    LET rendered == get_messages(msgs, size, Some(size))
    IN  IF Len(rendered) <= 1 THEN <<>>
        ELSE Join(SubSeq(rendered, 1, Len(rendered) - 1), NL)

get_last_message(msgs, size) ==
    LET rendered == get_messages(msgs, size, Some(size))
    IN  IF Len(rendered) = 0 THEN <<>> ELSE rendered[Len(rendered)]

get_system_prompt(info) == info

to_json(msgs) ==
    [i \in 1..Len(all(msgs)) |->
        [role |-> IF all(msgs)[i].is_user THEN "user" ELSE "assistant",
         message |-> all(msgs)[i].message]]

(* Variant: the history is placed before the examples. *)
to_openai_messages_HistoryFirst(info, qa, msgs) ==
    LET sys == IF Truthy(info)
               THEN <<[role |-> "system", content |-> get_system_prompt(info).val]>>
               ELSE <<>>
        src == all(msgs) \o qa
    IN  sys \o [i \in 1..Len(src) |->
                  [role |-> IF src[i].is_user THEN "user" ELSE "assistant",
                   content |-> src[i].message]]

to_openai_messages(info, qa, msgs) ==
    LET sys == IF Truthy(info)
               THEN <<[role |-> "system", content |-> get_system_prompt(info).val]>>
               ELSE <<>>
        src == qa \o all(msgs)
    IN  sys \o [i \in 1..Len(src) |->
                  [role |-> IF src[i].is_user THEN "user" ELSE "assistant",
                   content |-> src[i].message]]

(* The loop of add_qa_to_memory_for_query over the remaining documents,    *)
(* acc being _qa_context so far; a parser failure leaves the loop.         *)
RECURSIVE QaLoop(_, _)
QaLoop(docs, acc) ==
    IF docs = <<>> THEN [qa |-> acc, exc |-> "none"]
    ELSE LET p == parse_qa_doc(Head(docs))
         IN  IF ~p.ok THEN [qa |-> acc, exc |-> "ParseError"]
             ELSE QaLoop(Tail(docs),
                         acc \o <<[message |-> p.question, is_user |-> TRUE],
                                  [message |-> p.answer, is_user |-> FALSE]>>)

(* Variant: the examples of earlier calls are kept and extended. *)
add_qa_to_memory_for_query_Appends(qa, docs) == QaLoop(docs, qa)

add_qa_to_memory_for_query(qa, docs) == QaLoop(docs, <<>>)

----------------------------------------------------------------------------
Init ==
    /\ messages = <<>>
    /\ memory_size \in 1..MaxWindow
    /\ agent_info \in AgentInfos
    /\ qa_context = <<>>
    /\ op = "__init__"
    /\ arg = None
    /\ ret = None
    /\ exc = "none"
    /\ nAdds = 0
    /\ lastDocs = <<>>

(* A call that only reads: it records its result and leaves the object.    *)
Returns(name, a, value) ==
    /\ op' = name
    /\ arg' = a
    /\ ret' = value
    /\ exc' = "none"
    /\ UNCHANGED state
    /\ UNCHANGED ghost

(* Variant: the oldest turn is evicted once the window is full. *)
Add_Evicting ==
    /\ Len(messages) < MaxTurns
    /\ \E t \in Turns :
        /\ messages' = (IF Len(messages) >= memory_size THEN Tail(messages) ELSE messages)
                           \o <<[message |-> t.message, is_user |-> t.is_user]>>
        /\ arg' = t
    /\ op' = "add"
    /\ ret' = None
    /\ exc' = "none"
    /\ nAdds' = nAdds + 1
    /\ UNCHANGED <<memory_size, agent_info, qa_context, lastDocs>>

Add ==
    /\ Len(messages) < MaxTurns
    /\ \E t \in Turns :
        /\ messages' = Append(messages, [message |-> t.message, is_user |-> t.is_user])
        /\ arg' = t
    /\ op' = "add"
    /\ ret' = None
    /\ exc' = "none"
    /\ nAdds' = nAdds + 1
    /\ UNCHANGED <<memory_size, agent_info, qa_context, lastDocs>>

Count == Returns("count", None, count(messages))

All == Returns("all", None, all(messages))

Last ==
    /\ op' = "last"
    /\ arg' = None
    /\ IF messages = <<>>
       THEN ret' = None /\ exc' = "IndexError"
       ELSE ret' = messages[Len(messages)] /\ exc' = "none"
    /\ UNCHANGED state
    /\ UNCHANGED ghost

(* Variant: the truncated text is written back into the rendered turns. *)
GetMessages_StoresTruncated ==
    \E limit \in Limits :
        /\ op' = "get_messages"
        /\ arg' = limit
        /\ ret' = get_messages(messages, memory_size, limit)
        /\ exc' = "none"
        /\ messages' = [i \in 1..Len(messages) |->
                          IF i > Len(messages) - Len(ret') /\ ~messages[i].is_user
                          THEN [messages[i] EXCEPT !.message = _truncate(@)]
                          ELSE messages[i]]
        /\ UNCHANGED <<memory_size, agent_info, qa_context>>
        /\ UNCHANGED ghost

GetMessages ==
    \E limit \in Limits :
        Returns("get_messages", limit, get_messages(messages, memory_size, limit))

GetConversation ==
    \E limit \in Limits :
        Returns("get_conversation", limit, get_conversation(messages, memory_size, limit))

GetPreviousConversation ==
    Returns("get_previous_conversation", None,
            get_previous_conversation(messages, memory_size))

GetLastMessage ==
    Returns("get_last_message", None, get_last_message(messages, memory_size))

GetSystemPrompt ==
    Returns("get_system_prompt", None, get_system_prompt(agent_info))

ToJson == Returns("to_json", None, to_json(messages))

ToOpenaiMessages ==
    Returns("to_openai_messages", None,
            to_openai_messages(agent_info, qa_context, messages))

AddQaToMemoryForQuery ==
    \E docs \in DocSeqs :
        LET r == add_qa_to_memory_for_query(qa_context, docs)
        IN  /\ qa_context' = r.qa
            /\ exc' = r.exc
            /\ op' = "add_qa_to_memory_for_query"
            /\ arg' = docs
            /\ ret' = None
            /\ lastDocs' = docs
            /\ UNCHANGED <<messages, memory_size, agent_info, nAdds>>

(* Variant: clear drops the examples as well. *)
Clear_DropsExamples ==
    /\ messages' = <<>>
    /\ qa_context' = <<>>
    /\ op' = "clear"
    /\ arg' = None
    /\ ret' = None
    /\ exc' = "none"
    /\ nAdds' = 0
    /\ UNCHANGED <<memory_size, agent_info, lastDocs>>

Clear ==
    /\ messages' = <<>>
    /\ op' = "clear"
    /\ arg' = None
    /\ ret' = None
    /\ exc' = "none"
    /\ nAdds' = 0
    /\ UNCHANGED <<memory_size, agent_info, qa_context, lastDocs>>

Next ==
    \/ Add
    \/ Count
    \/ All
    \/ Last
    \/ GetMessages
    \/ GetConversation
    \/ GetPreviousConversation
    \/ GetLastMessage
    \/ GetSystemPrompt
    \/ ToJson
    \/ ToOpenaiMessages
    \/ AddQaToMemoryForQuery
    \/ Clear

Spec == Init /\ [][Next]_vars

----------------------------------------------------------------------------
(* Names used by the properties. *)
RefreshOp == "add_qa_to_memory_for_query"
RenderOps == {"count", "all", "last", "get_messages", "get_conversation",
              "get_previous_conversation", "get_last_message",
              "get_system_prompt", "to_json", "to_openai_messages"}
RoleOf(t) == IF t.is_user THEN "user" ELSE "assistant"
AllParse(docs) == \A i \in 1..Len(docs) : parse_qa_doc(docs[i]).ok
LongAnswer(t) == ~t.is_user /\ Len(t.message) > max_length

(* The ordering law of to_openai_messages for a result out, hasSystem      *)
(* telling whether a system record is expected.                            *)
OrderingLaw(out, hasSystem) ==
    LET off == IF hasSystem THEN 1 ELSE 0
    IN  /\ Len(out) = off + Len(qa_context) + Len(messages)
        /\ hasSystem => out[1] = [role |-> "system", content |-> agent_info.val]
        /\ \A i \in 1..Len(qa_context) :
              out[off + i] = [role |-> RoleOf(qa_context[i]),
                              content |-> qa_context[i].message]
        /\ \A i \in 1..Len(messages) :
              out[off + Len(qa_context) + i] = [role |-> RoleOf(messages[i]),
                                                content |-> messages[i].message]

----------------------------------------------------------------------------
(* C1: a refresh in which the parser fails on some document raises and     *)
(* leaves the examples exactly as they were before the call.               *)
C1_RefreshAllOrNothing ==
    [][(op' = RefreshOp /\ ~AllParse(arg'))
          => (exc' = "ParseError" /\ qa_context' = qa_context)]_vars

(* C2 as stated: a system record is emitted whenever the system info is    *)
(* set (not None), followed by the examples and the whole log.             *)
C2_OrderingLawWhenSet ==
    op = "to_openai_messages" => OrderingLaw(ret, agent_info.some)

(* C2 amended: the system record is emitted exactly when the system info   *)
(* is a non-empty string; then come the examples in order, then the whole  *)
(* unwindowed log in order, user turns as user and the others as assistant.*)
C2_OrderingLaw ==
    op = "to_openai_messages" => OrderingLaw(ret, Truthy(agent_info))

C2_Witness ==
    /\ op = "to_openai_messages"
    /\ Truthy(agent_info)
    /\ qa_context # <<>>
    /\ Len(messages) > memory_size
    /\ \E i \in 1..Len(messages) : ~messages[i].is_user

(* C3: get_messages with limit n >= 0 (the window size when no limit is    *)
(* given) returns exactly min(n, count) entries, the renderings of the     *)
(* most recently appended turns in their original order.                   *)
C3_WindowAtMostN ==
    op = "get_messages" =>
        LET n == IF arg.some THEN arg.val ELSE memory_size
            k == Min(n, count(messages))
        IN  /\ Len(ret) = k
            /\ \A i \in 1..k :
                  ret[i] = RenderMessage(messages[Len(messages) - k + i])

(* C4: count() is the number of add calls since construction or the last   *)
(* clear, whatever the window size and whatever other calls were made.     *)
C4_CountIsAppends ==
    /\ count(messages) = nAdds
    /\ op = "count" => ret = nAdds

C4_Witness ==
    /\ op = "count"
    /\ nAdds > memory_size
    /\ lastDocs # <<>>

(* C5: clear empties the log and keeps the system info, the examples and   *)
(* the window size: the system prompt is the same and the prompt list is   *)
(* what it was before without its history records.                         *)
C5_ClearFrame ==
    [][op' = "clear" =>
          LET before == to_openai_messages(agent_info, qa_context, messages)
              after == to_openai_messages(agent_info', qa_context', messages')
          IN  /\ count(messages') = 0
              /\ agent_info' = agent_info
              /\ qa_context' = qa_context
              /\ memory_size' = memory_size
              /\ get_system_prompt(agent_info') = get_system_prompt(agent_info)
              /\ after = SubSeq(before, 1, Len(before) - Len(messages))
              /\ Len(after) = (IF Truthy(agent_info) THEN 1 ELSE 0) + Len(qa_context)]_vars

C5_Witness ==
    /\ op = "clear"
    /\ messages = <<>>
    /\ qa_context # <<>>
    /\ Truthy(agent_info)

(* C6: in get_messages an answer longer than 100 characters renders as the *)
(* answer header, its first 100 characters and the ellipsis marker; a      *)
(* shorter answer renders whole; a user turn renders whole at any length.  *)
C6_RenderingRule ==
    op = "get_messages" =>
        /\ Len(ret) <= Len(messages)
        /\ \A i \in 1..Len(ret) :
              LET m == messages[Len(messages) - Len(ret) + i]
              IN  ret[i] =
                    IF m.is_user THEN QUERY \o <<"\n", " ">> \o m.message
                    ELSE IF Len(m.message) > 100
                         THEN ANSWER \o <<"\n", " ">> \o
                              [j \in 1..100 |-> m.message[j]] \o <<" ", ".", ".", ".">>
                         ELSE ANSWER \o <<"\n", " ">> \o m.message

C6_Witness ==
    /\ op = "get_messages"
    /\ Len(ret) = 2
    /\ LongAnswer(messages[1])
    /\ messages[2].is_user /\ Len(messages[2].message) > max_length

(* C7: get_previous_conversation is empty when the window of memory_size   *)
(* has at most one entry; otherwise the conversation text of that window   *)
(* is its result, a newline and the last rendered message of the window.   *)
C7_PreviousConversation ==
    op = "get_previous_conversation" =>
        LET w == get_messages(messages, memory_size, Some(memory_size))
        IN  IF Len(w) <= 1 THEN ret = <<>>
            ELSE /\ get_conversation(messages, memory_size, Some(memory_size))
                       = ret \o <<"\n">> \o w[Len(w)]
                 /\ ret = Join([i \in 1..(Len(w) - 1) |-> w[i]], <<"\n">>)

C7_Witness ==
    /\ op = "get_previous_conversation"
    /\ ret # <<>>
    /\ Len(messages) >= 2

(* C8: no rendering call changes the log, the examples, the window size or *)
(* the system info; the role lists still carry the full stored texts.      *)
C8_RenderingIsPure ==
    [][op' \in RenderOps =>
          /\ messages' = messages
          /\ qa_context' = qa_context
          /\ memory_size' = memory_size
          /\ agent_info' = agent_info
          /\ to_json(messages') = to_json(messages)
          /\ to_openai_messages(agent_info', qa_context', messages')
                = to_openai_messages(agent_info, qa_context, messages)]_vars

C8_Witness ==
    /\ op = "get_messages"
    /\ \E i \in 1..Len(messages) : LongAnswer(messages[i])
    /\ \E i \in 1..Len(ret) :
          SubSeq(ret[i], Len(ret[i]) - 3, Len(ret[i])) = ELLIPSIS
    /\ \E i \in 1..Len(messages) :
          LongAnswer(messages[i]) /\ to_json(messages)[i].message = MkText(max_length + 1)

(* C9: when the most recent refresh parsed all its documents, the examples *)
(* are exactly one user turn (question) then one answer turn per document  *)
(* of that call, in document order; add and clear do not change them.      *)
C9_ExamplesFromLastRefresh ==
    AllParse(lastDocs) =>
        /\ Len(qa_context) = 2 * Len(lastDocs)
        /\ \A i \in 1..Len(lastDocs) :
              /\ qa_context[2 * i - 1] =
                    [message |-> parse_qa_doc(lastDocs[i]).question, is_user |-> TRUE]
              /\ qa_context[2 * i] =
                    [message |-> parse_qa_doc(lastDocs[i]).answer, is_user |-> FALSE]

C9_Witness ==
    /\ op \in {"add", "clear"}
    /\ Len(lastDocs) = 2
    /\ lastDocs[1] # lastDocs[2]
    /\ AllParse(lastDocs)
    /\ Len(qa_context) = 4

(* C10: every step leaves the log unchanged, or (add) extends it by the    *)
(* given turn at the end, or (clear) empties it.                           *)
C10_AppendOnly ==
    [][IF op' = "add"
       THEN messages' = Append(messages, [message |-> arg'.message,
                                          is_user |-> arg'.is_user])
       ELSE IF op' = "clear" THEN messages' = <<>>
       ELSE messages' = messages]_vars

C10_Witness ==
    /\ op = "add"
    /\ Len(messages) > memory_size
    /\ messages[1] = messages[2]
    /\ messages[1].message = <<>>

====
